---- MODULE Spec2Model ----
(***************************************************************************)
(* A model of converter.py: the CSV line parser (parse_line,               *)
(* normalize_value), the record writer (write_json_data) and the streaming *)
(* conversion run by the __main__ block (open both files, write the JSON   *)
(* header, parse the CSV header line, convert line by line, patch the      *)
(* footer in, close the files).                                            *)
(*                                                                         *)
(* A text (str) is a sequence of one-character strings.                    *)
(***************************************************************************)
EXTENDS Integers, Sequences, FiniteSets

VARIABLES
    pc,            \* position of the program (the __main__ block and convert)
    exc,           \* the exception in flight or that ended the run, "none" if none
    printed,       \* what the __main__ block printed
    convert_state, \* "not_called", "running", "returned" or "raised"
    fs_source,     \* the text of the source file on disk
    source_file,   \* self.source_file: "none", "open" or "closed"
    source_pos,    \* number of characters of the source already read
    dest_file,     \* self.dest_file: "none", "open" or "closed"
    dest_created,  \* the destination path was created or truncated
    dest,          \* the text of the destination file
    dest_pos,      \* the write position of dest_file
    headers,       \* local headers of _convert_data
    line,          \* the raw line at hand
    parsed_line,   \* the result of parse_line
    data,          \* local data of write_json_data, the dict: a sequence of <<key, value>>
    value,         \* the result of normalize_value
    values,        \* field values a line was built from (quoting convention)
    nHeaders,      \* history: number of get_csv_headers calls made
    nRead,         \* history: number of data lines handed out by source_file_lines
    nWritten,      \* history: number of records written by write_json_data
    nFooter        \* history: number of _write_json_file_footer calls completed

vars == <<pc, exc, printed, convert_state, fs_source, source_file, source_pos,
          dest_file, dest_created, dest, dest_pos, headers, line, parsed_line,
          data, value, values, nHeaders, nRead, nWritten, nFooter>>

(***************************************************************************)
(* Bounds of the model.                                                    *)
(***************************************************************************)
MaxFileLen == 5
MaxLineLen == 5
MaxValueChars == 5

Quote == "\""
Comma == ","
NL == "\n"
Space == " "
Backslash == "\\"

Bar == "|"

FileAlphabet == {"a", "b", Comma, Quote, NL}
LineAlphabet == {"a", Comma, Quote, Space, NL}
ValueAlphabet == {"a", Comma, Quote, Space}

Strings(A, n) == UNION {[1..k -> A] : k \in 0..n}

\* Lines the documentation of the parser singles out.
QuotedCommaLine == <<Quote, "a", Comma, "b", Quote, Comma, "c">>
EscapedQuotesLine ==
    <<Quote, "s", "a", "y", Space, Quote, Quote, "h", "i", Quote, Quote, Quote>>
ExampleLines == {QuotedCommaLine, EscapedQuotesLine}

\* The pieces of text t between the occurrences of sep (cur: the piece begun).
RECURSIVE SplitAt(_, _, _)
SplitAt(t, sep, cur) ==
    IF t = <<>> THEN <<cur>>
    ELSE IF Head(t) = sep THEN <<cur>> \o SplitAt(Tail(t), sep, <<>>)
    ELSE SplitAt(Tail(t), sep, Append(cur, Head(t)))

(***************************************************************************)
(* str helpers.                                                            *)
(***************************************************************************)
\* str.strip() removes whitespace; of the characters modelled, space and newline.
IsSpace(c) == c \in {Space, NL}

RECURSIVE LStrip(_)
LStrip(s) == IF s # <<>> /\ IsSpace(Head(s)) THEN LStrip(Tail(s)) ELSE s

RECURSIVE RStrip(_)
RStrip(s) ==
    IF s # <<>> /\ IsSpace(s[Len(s)]) THEN RStrip(SubSeq(s, 1, Len(s) - 1)) ELSE s

Strip(s) == RStrip(LStrip(s))

StartsWithQuote(s) == Len(s) >= 1 /\ s[1] = Quote
EndsWithQuote(s) == Len(s) >= 1 /\ s[Len(s)] = Quote

\* value.replace('""', '"'): leftmost, non-overlapping occurrences.
RECURSIVE ReplaceDoubled(_)
ReplaceDoubled(s) ==
    IF s = <<>> THEN <<>>
    ELSE IF Len(s) >= 2 /\ s[1] = Quote /\ s[2] = Quote
         THEN <<Quote>> \o ReplaceDoubled(SubSeq(s, 3, Len(s)))
         ELSE <<Head(s)>> \o ReplaceDoubled(Tail(s))

\* A mutant of normalize_value: the surrounding quotes are removed when the
\* value starts or ends with a quote.
normalize_value_either(v) ==
    LET s == Strip(v)
        u == IF StartsWithQuote(s) \/ EndsWithQuote(s)
             THEN SubSeq(s, 2, Len(s) - 1) ELSE s
    IN ReplaceDoubled(u)

\* A mutant of normalize_value: inner quotes are unescaped before the
\* surrounding quotes are removed.
normalize_value_reordered(v) ==
    LET s == ReplaceDoubled(Strip(v))
    IN IF StartsWithQuote(s) /\ EndsWithQuote(s)
       THEN SubSeq(s, 2, Len(s) - 1) ELSE s

normalize_value(v) ==
    LET s == Strip(v)
        u == IF StartsWithQuote(s) /\ EndsWithQuote(s)
             THEN SubSeq(s, 2, Len(s) - 1) ELSE s
    IN ReplaceDoubled(u)

\* if line.endswith('\n'): line = line[:-1]
Chomp(l) == IF l # <<>> /\ l[Len(l)] = NL THEN SubSeq(l, 1, Len(l) - 1) ELSE l

\* The for loop of parse_line, from character index on (1-based), and the
\* code after the loop.
RECURSIVE ParseScan(_, _, _, _, _)
ParseScan(l, index, start_index, quotes_number, parsed) ==
    IF index > Len(l)
    THEN Append(parsed, normalize_value(SubSeq(l, start_index, Len(l))))
    ELSE IF l[index] = Comma /\ quotes_number % 2 = 0
         THEN ParseScan(l, index + 1, index + 1, quotes_number,
                  Append(parsed, normalize_value(SubSeq(l, start_index, index - 1))))
         ELSE IF l[index] = Quote
              THEN ParseScan(l, index + 1, start_index, quotes_number + 1, parsed)
              ELSE ParseScan(l, index + 1, start_index, quotes_number, parsed)

\* A mutant of the loop: every comma separates, quoted or not.
RECURSIVE ParseScanNoParity(_, _, _, _, _)
ParseScanNoParity(l, index, start_index, quotes_number, parsed) ==
    IF index > Len(l)
    THEN Append(parsed, normalize_value(SubSeq(l, start_index, Len(l))))
    ELSE IF l[index] = Comma
         THEN ParseScanNoParity(l, index + 1, index + 1, quotes_number,
                  Append(parsed, normalize_value(SubSeq(l, start_index, index - 1))))
         ELSE ParseScanNoParity(l, index + 1, start_index, quotes_number, parsed)

parse_line_no_parity(l) == ParseScanNoParity(Chomp(l), 1, 1, 0, <<>>)

parse_line(l) == ParseScan(Chomp(l), 1, 1, 0, <<>>)

(***************************************************************************)
(* The file objects and the JSON serializer.                               *)
(***************************************************************************)
json_file_header == <<"{", Quote, "d", "a", "t", "a", Quote, ":", Space, "[">>
json_file_footer == <<"]", "}">>

\* A mutant of the separator write_json_data appends: a comma without the space.
json_record_separator_short == <<Comma>>

\* The ', ' write_json_data appends to every record.
json_record_separator == <<Comma, Space>>

\* file.readline() at position pos (characters already read): the text up to
\* and including the next newline, or up to the end of the file; '' at the end.
RECURSIVE LineEnd(_, _)
LineEnd(text, i) ==
    IF i > Len(text) THEN Len(text)
    ELSE IF text[i] = NL THEN i ELSE LineEnd(text, i + 1)

readline(text, pos) == SubSeq(text, pos + 1, LineEnd(text, pos + 1))

\* file.write(text) at position pos of a file holding content.
FileWrite(content, pos, text) ==
    SubSeq(content, 1, pos) \o text \o SubSeq(content, pos + Len(text) + 1, Len(content))

\* A mutant of the footer's seek: the position stays at the end of the file.
FooterPositionAtEnd(content) == Len(content)

\* seek(0, SEEK_END); seek(tell() - 2, SEEK_SET): the position the footer is
\* written at.
FooterPosition(content) == Len(content) - 2

\* json.dumps of a str, without the surrounding quotes.
EscapeChar(c) ==
    IF c = Quote THEN <<Backslash, Quote>>
    ELSE IF c = Backslash THEN <<Backslash, Backslash>>
    ELSE IF c = NL THEN <<Backslash, "n">>
    ELSE <<c>>

RECURSIVE EscapeJson(_)
EscapeJson(s) == IF s = <<>> THEN <<>> ELSE EscapeChar(Head(s)) \o EscapeJson(Tail(s))

DumpsItem(kv) ==
    <<Quote>> \o EscapeJson(kv[1]) \o <<Quote, ":", Space, Quote>>
              \o EscapeJson(kv[2]) \o <<Quote>>

RECURSIVE DumpsItems(_)
DumpsItems(d) ==
    IF d = <<>> THEN <<>>
    ELSE IF Len(d) = 1 THEN DumpsItem(d[1])
    ELSE DumpsItem(d[1]) \o <<Comma, Space>> \o DumpsItems(Tail(d))

\* json.dumps(data) of a dict of str to str.
Dumps(d) == <<"{">> \o DumpsItems(d) \o <<"}">>

\* A dict is the sequence of its <<key, value>> items in insertion order.
DictHas(d, k) == \E i \in 1..Len(d) : d[i][1] = k

\* A mutant of d[k] = v: a key already present keeps its value.
DictSetDefault(d, k, v) == IF DictHas(d, k) THEN d ELSE Append(d, <<k, v>>)

\* d[k] = v
DictSet(d, k, v) ==
    IF DictHas(d, k)
    THEN [i \in 1..Len(d) |-> IF d[i][1] = k THEN <<k, v>> ELSE d[i]]
    ELSE Append(d, <<k, v>>)

Min(a, b) == IF a <= b THEN a ELSE b

\* dict(zip(headers, line)) from pair i on.
RECURSIVE DictZipFrom(_, _, _, _)
DictZipFrom(H, D, i, d) ==
    IF i > Min(Len(H), Len(D)) THEN d
    ELSE DictZipFrom(H, D, i + 1, DictSet(d, H[i], D[i]))

DictZip(H, D) == DictZipFrom(H, D, 1, <<>>)

(***************************************************************************)
(* The program: the __main__ block running CsvToJsonConverter.             *)
(***************************************************************************)
OpenErrors == {"FileNotFoundError", "PermissionError"}

Idle ==
    /\ exc = "none"
    /\ printed = "none"
    /\ convert_state = "not_called"
    /\ source_file = "none"
    /\ source_pos = 0
    /\ dest_file = "none"
    /\ dest_created = FALSE
    /\ dest = <<>>
    /\ dest_pos = 0
    /\ headers = <<>>
    /\ parsed_line = <<>>
    /\ data = <<>>
    /\ value = <<>>
    /\ nHeaders = 0
    /\ nRead = 0
    /\ nWritten = 0
    /\ nFooter = 0

Init ==
    /\ pc = "main"
    /\ fs_source \in Strings(FileAlphabet, MaxFileLen)
    /\ line = <<>>
    /\ values = <<>>
    /\ Idle

\* __init__: open(source_file_name, 'r') succeeds or raises.
OpenSource ==
    /\ pc = "main"
    /\ \/ /\ source_file' = "open"
          /\ pc' = "open_dest"
          /\ UNCHANGED exc
       \/ /\ \E e \in OpenErrors : exc' = e
          /\ pc' = "except"
          /\ UNCHANGED source_file
    /\ UNCHANGED <<printed, convert_state, fs_source, source_pos, dest_file,
                   dest_created, dest, dest_pos, headers, line, parsed_line,
                   data, value, values, nHeaders, nRead, nWritten, nFooter>>

\* __init__: open(dest_file_name, 'w') creates or truncates the file, or raises.
OpenDest ==
    /\ pc = "open_dest"
    /\ \/ /\ dest_file' = "open"
          /\ dest_created' = TRUE
          /\ dest' = <<>>
          /\ dest_pos' = 0
          /\ pc' = "convert"
          /\ UNCHANGED exc
       \/ /\ \E e \in OpenErrors : exc' = e
          /\ pc' = "except"
          /\ UNCHANGED <<dest_file, dest_created, dest, dest_pos>>
    /\ UNCHANGED <<printed, convert_state, fs_source, source_file, source_pos,
                   headers, line, parsed_line, data, value, values,
                   nHeaders, nRead, nWritten, nFooter>>

\* csv_json_converter.convert() is called and enters _convert_data.
Convert ==
    /\ pc = "convert"
    /\ convert_state' = "running"
    /\ pc' = "write_header"
    /\ UNCHANGED <<exc, printed, fs_source, source_file, source_pos, dest_file,
                   dest_created, dest, dest_pos, headers, line, parsed_line,
                   data, value, values, nHeaders, nRead, nWritten, nFooter>>

WriteJsonFileHeader ==
    /\ pc = "write_header"
    /\ dest' = FileWrite(dest, dest_pos, json_file_header)
    /\ dest_pos' = dest_pos + Len(json_file_header)
    /\ pc' = "get_csv_headers"
    /\ UNCHANGED <<exc, printed, convert_state, fs_source, source_file,
                   source_pos, dest_file, dest_created, headers, line,
                   parsed_line, data, value, values, nHeaders, nRead, nWritten,
                   nFooter>>

GetCsvHeaders ==
    /\ pc = "get_csv_headers"
    /\ LET l == readline(fs_source, source_pos)
       IN /\ source_pos' = source_pos + Len(l)
          /\ headers' = parse_line(l)
    /\ nHeaders' = nHeaders + 1
    /\ pc' = "next_line"
    /\ UNCHANGED <<exc, printed, convert_state, fs_source, source_file,
                   dest_file, dest_created, dest, dest_pos, line, parsed_line,
                   data, value, values, nRead, nWritten, nFooter>>

\* A mutant of source_file_lines: two lines are read before the first is handed out.
SourceFileLinesAhead ==
    /\ pc = "next_line"
    /\ LET l == readline(fs_source, source_pos)
           m == readline(fs_source, source_pos + Len(l))
       IN IF l = <<>>
          THEN /\ pc' = "footer"
               /\ UNCHANGED <<line, source_pos, nRead>>
          ELSE /\ line' = l
               /\ source_pos' = source_pos + Len(l) + Len(m)
               /\ nRead' = nRead + (IF m = <<>> THEN 1 ELSE 2)
               /\ pc' = "parse_line"
    /\ UNCHANGED <<exc, printed, convert_state, fs_source, source_file,
                   dest_file, dest_created, dest, dest_pos, headers,
                   parsed_line, data, value, values, nHeaders, nWritten, nFooter>>

\* One turn of the generator source_file_lines: the next line, or the end of
\* the for loop of _convert_data.
SourceFileLines ==
    /\ pc = "next_line"
    /\ LET l == readline(fs_source, source_pos)
       IN IF l = <<>>
          THEN /\ pc' = "footer"
               /\ UNCHANGED <<line, source_pos, nRead>>
          ELSE /\ line' = l
               /\ source_pos' = source_pos + Len(l)
               /\ nRead' = nRead + 1
               /\ pc' = "parse_line"
    /\ UNCHANGED <<exc, printed, convert_state, fs_source, source_file,
                   dest_file, dest_created, dest, dest_pos, headers,
                   parsed_line, data, value, values, nHeaders, nWritten, nFooter>>

ParseLine ==
    /\ pc = "parse_line"
    /\ parsed_line' = parse_line(line)
    /\ pc' = "write_json_data"
    /\ UNCHANGED <<exc, printed, convert_state, fs_source, source_file,
                   source_pos, dest_file, dest_created, dest, dest_pos, headers,
                   line, data, value, values, nHeaders, nRead, nWritten, nFooter>>

WriteJsonData ==
    /\ pc = "write_json_data"
    /\ data' = DictZip(headers, parsed_line)
    /\ LET text == Dumps(data') \o json_record_separator
       IN /\ dest' = FileWrite(dest, dest_pos, text)
          /\ dest_pos' = dest_pos + Len(text)
    /\ nWritten' = nWritten + 1
    /\ pc' = "next_line"
    /\ UNCHANGED <<exc, printed, convert_state, fs_source, source_file,
                   source_pos, dest_file, dest_created, headers, line,
                   parsed_line, value, values, nHeaders, nRead, nFooter>>

WriteJsonFileFooter ==
    /\ pc = "footer"
    /\ LET p == FooterPosition(dest)
       IN /\ dest' = FileWrite(dest, p, json_file_footer)
          /\ dest_pos' = p + Len(json_file_footer)
    /\ nFooter' = nFooter + 1
    /\ pc' = "close_files"
    /\ UNCHANGED <<exc, printed, convert_state, fs_source, source_file,
                   source_pos, dest_file, dest_created, headers, line,
                   parsed_line, data, value, values, nHeaders, nRead, nWritten>>

\* _close_files, after which convert returns.
CloseFiles ==
    /\ pc = "close_files"
    /\ source_file' = "closed"
    /\ dest_file' = "closed"
    /\ convert_state' = "returned"
    /\ pc' = "else"
    /\ UNCHANGED <<exc, printed, fs_source, source_pos, dest_created, dest,
                   dest_pos, headers, line, parsed_line, data, value, values,
                   nHeaders, nRead, nWritten, nFooter>>

\* A read from the source or a write to the sink raises inside _convert_data
\* (OSError: disk full, device error). convert has no try/finally: the
\* exception leaves convert before _close_files is reached.
IoSteps == {"write_header", "get_csv_headers", "next_line", "write_json_data", "footer"}

IoError ==
    /\ pc \in IoSteps
    /\ exc' = "OSError"
    /\ convert_state' = "raised"
    /\ pc' = "except"
    /\ UNCHANGED <<printed, fs_source, source_file, source_pos, dest_file,
                   dest_created, dest, dest_pos, headers, line, parsed_line,
                   data, value, values, nHeaders, nRead, nWritten, nFooter>>

\* except FileNotFoundError: print(...); any other exception is not handled
\* and ends the process with a traceback.
MainExcept ==
    /\ pc = "except"
    /\ printed' = IF exc = "FileNotFoundError"
                  THEN "Source file not found!" ELSE "Traceback"
    /\ pc' = "exit"
    /\ UNCHANGED <<exc, convert_state, fs_source, source_file, source_pos,
                   dest_file, dest_created, dest, dest_pos, headers, line,
                   parsed_line, data, value, values, nHeaders, nRead, nWritten,
                   nFooter>>

\* else: print('Data successfully converted.')
MainElse ==
    /\ pc = "else"
    /\ printed' = "Data successfully converted."
    /\ pc' = "exit"
    /\ UNCHANGED <<exc, convert_state, fs_source, source_file, source_pos,
                   dest_file, dest_created, dest, dest_pos, headers, line,
                   parsed_line, data, value, values, nHeaders, nRead, nWritten,
                   nFooter>>

Next ==
    \/ OpenSource
    \/ OpenDest
    \/ Convert
    \/ WriteJsonFileHeader
    \/ GetCsvHeaders
    \/ SourceFileLines
    \/ ParseLine
    \/ WriteJsonData
    \/ WriteJsonFileFooter
    \/ CloseFiles
    \/ IoError
    \/ MainExcept
    \/ MainElse

Spec == Init /\ [][Next]_vars

(***************************************************************************)
(* The parser on its own: parse_line and normalize_value applied to every  *)
(* line of a bounded set, and to the lines built from field values by the  *)
(* quoting convention.                                                     *)
(***************************************************************************)
\* Field values are drawn as the pieces of a text cut at every Bar.
ValueSeqs ==
    {<<>>} \cup {SplitAt(t, Bar, <<>>) : t \in Strings(ValueAlphabet \cup {Bar}, MaxValueChars)}

\* The quoting convention: a quote, the value with every quote doubled, a quote.
RECURSIVE DoubleQuotes(_)
DoubleQuotes(v) ==
    IF v = <<>> THEN <<>>
    ELSE (IF Head(v) = Quote THEN <<Quote, Quote>> ELSE <<Head(v)>>)
         \o DoubleQuotes(Tail(v))

QuoteField(v) == <<Quote>> \o DoubleQuotes(v) \o <<Quote>>

RECURSIVE EncodeLine(_)
EncodeLine(vs) ==
    IF vs = <<>> THEN <<>>
    ELSE IF Len(vs) = 1 THEN QuoteField(vs[1])
    ELSE QuoteField(vs[1]) \o <<Comma>> \o EncodeLine(Tail(vs))

InitParse ==
    /\ pc = "input"
    /\ fs_source = <<>>
    /\ \/ /\ values \in ValueSeqs
          /\ line = EncodeLine(values)
       \/ /\ values = <<>>
          /\ line \in Strings(LineAlphabet, MaxLineLen) \cup ExampleLines
    /\ Idle

CallParseLine ==
    /\ pc = "input"
    /\ parsed_line' = parse_line(line)
    /\ pc' = "parsed"
    /\ UNCHANGED <<exc, printed, convert_state, fs_source, source_file,
                   source_pos, dest_file, dest_created, dest, dest_pos, headers,
                   line, data, value, values, nHeaders, nRead, nWritten, nFooter>>

CallNormalizeValue ==
    /\ pc = "input"
    /\ value' = normalize_value(line)
    /\ pc' = "normalized"
    /\ UNCHANGED <<exc, printed, convert_state, fs_source, source_file,
                   source_pos, dest_file, dest_created, dest, dest_pos, headers,
                   line, parsed_line, data, values, nHeaders, nRead, nWritten,
                   nFooter>>

NextParse == CallParseLine \/ CallNormalizeValue

SpecParse == InitParse /\ [][NextParse]_vars


(***************************************************************************)
(* Properties.                                                             *)
(***************************************************************************)
\* The lines of a source text, without their newlines: the pieces between
\* newlines, less the empty piece after a final newline (or of an empty file).
SourceLines(text) ==
    LET pieces == SplitAt(text, NL, <<>>)
    IN IF pieces[Len(pieces)] = <<>> THEN SubSeq(pieces, 1, Len(pieces) - 1) ELSE pieces

\* The serialized records of data lines ls under header line h, joined by ', '.
RECURSIVE JoinedRecords(_, _)
JoinedRecords(h, ls) ==
    IF ls = <<>> THEN <<>>
    ELSE IF Len(ls) = 1 THEN Dumps(DictZip(parse_line(h), parse_line(ls[1])))
    ELSE Dumps(DictZip(parse_line(h), parse_line(ls[1]))) \o <<Comma, Space>>
         \o JoinedRecords(h, Tail(ls))

\* A header line and N >= 1 data lines, each with as many fields as the header.
WellFormedSource(text) ==
    LET ls == SourceLines(text)
    IN /\ Len(ls) >= 2
       /\ \A i \in 2..Len(ls) : Len(parse_line(ls[i])) = Len(parse_line(ls[1]))

OpeningFragment == <<"{", Quote, "d", "a", "t", "a", Quote, ":", Space, "[">>
ClosingFragment == <<"]", "}">>

\* C1: for a source of a header line and N >= 1 data lines with as many fields
\* as the header, when convert has returned the sink holds the opening
\* fragment, the N serialized records in source order separated by ', ', and
\* the closing fragment, with no separator before the closing bracket.
C1_Framing ==
    (convert_state = "returned" /\ WellFormedSource(fs_source)) =>
        LET ls == SourceLines(fs_source)
        IN dest = OpeningFragment \o JoinedRecords(ls[1], Tail(ls)) \o ClosingFragment

C1_Witness ==
    /\ convert_state = "returned"
    /\ WellFormedSource(fs_source)
    /\ Len(SourceLines(fs_source)) = 3
    /\ nWritten = 2

QuotesBefore(l, i) == Cardinality({j \in 1..(i - 1) : l[j] = Quote})

\* The commas of l with an even number of quotes to their left.
Separators(l) == {i \in 1..Len(l) : l[i] = Comma /\ QuotesBefore(l, i) % 2 = 0}

\* The k-th separator of l from the left; 0 for k = 0, Len(l) + 1 past the last.
SeparatorAt(l, k) ==
    IF k = 0 THEN 0
    ELSE IF k > Cardinality(Separators(l)) THEN Len(l) + 1
    ELSE CHOOSE i \in Separators(l) :
             Cardinality({j \in Separators(l) : j < i}) = k - 1

\* C2: parse_line splits the line (less one trailing newline) at exactly the
\* commas that have an even number of quotes to their left: it returns one
\* field more than there are such commas, so at least one, each field the
\* normalized text between two neighbouring separators; and "a,b",c yields
\* the two fields a,b and c.
C2_ParitySplit ==
    pc = "parsed" =>
        LET l == Chomp(line)
        IN /\ Len(parsed_line) = 1 + Cardinality(Separators(l))
           /\ Len(parsed_line) >= 1
           /\ \A k \in 1..Len(parsed_line) :
                  parsed_line[k] = normalize_value(
                      SubSeq(l, SeparatorAt(l, k - 1) + 1, SeparatorAt(l, k) - 1))
           /\ line = QuotedCommaLine => parsed_line = <<<<"a", Comma, "b">>, <<"c">>>>
           /\ line = <<>> => parsed_line = <<<<>>>>

C2_Witness ==
    /\ pc = "parsed"
    /\ line = QuotedCommaLine
    /\ parsed_line = <<<<"a", Comma, "b">>, <<"c">>>>

\* C3 as stated: for every sequence of field values, the line built by the
\* quoting convention parses back to the sequence.
C3_RoundTrip ==
    (pc = "parsed" /\ line = EncodeLine(values)) => parsed_line = values

\* C3, amended: for every sequence of at least one field value, the line
\* built by the quoting convention parses back to the sequence.
C3_RoundTripNonEmpty ==
    (pc = "parsed" /\ values # <<>> /\ line = EncodeLine(values)) =>
        parsed_line = values

Contains(s, c) == \E i \in 1..Len(s) : s[i] = c

C3_Witness ==
    /\ pc = "parsed"
    /\ Len(values) = 2
    /\ Contains(values[1], Comma) /\ Contains(values[1], Quote)
    /\ StartsWithQuote(values[2]) /\ EndsWithQuote(values[2])
    /\ line = EncodeLine(values)
    /\ parsed_line = values

DictKeys(d) == {d[i][1] : i \in 1..Len(d)}

\* The text of the last write of n characters to the sink.
LastWritten(n) == SubSeq(dest, dest_pos - n + 1, dest_pos)

AfterWriteJsonData == pc = "next_line" /\ nWritten > 0

\* C4 as stated: the record written maps headers[i] to the i-th value of the
\* line for every i up to the shorter length, and has no other entries.
C4_PairsByIndex ==
    AfterWriteJsonData =>
        LET m == Min(Len(headers), Len(parsed_line))
        IN /\ \A i \in 1..m : \E j \in 1..Len(data) :
                  data[j] = <<headers[i], parsed_line[i]>>
           /\ DictKeys(data) = {headers[i] : i \in 1..m}

\* C4, amended: the record written maps every header among the first m
\* (m the shorter length) to the value at the last position up to m that
\* carries that header, has one entry per distinct header among them and no
\* other entries, and is what is serialized into the sink.
C4_PairsLastWins ==
    AfterWriteJsonData =>
        LET m == Min(Len(headers), Len(parsed_line))
            last(i) == CHOOSE j \in i..m :
                           headers[j] = headers[i]
                           /\ \A k \in (j + 1)..m : headers[k] # headers[i]
        IN /\ \A i \in 1..m : \E j \in 1..Len(data) :
                  data[j] = <<headers[i], parsed_line[last(i)]>>
           /\ DictKeys(data) = {headers[i] : i \in 1..m}
           /\ Len(data) = Cardinality({headers[i] : i \in 1..m})
           /\ LET text == Dumps(data) \o <<Comma, Space>>
              IN dest_pos >= Len(text) /\ LastWritten(Len(text)) = text

C4_Witness ==
    /\ AfterWriteJsonData
    /\ Len(headers) = 2
    /\ Len(parsed_line) = 2
    /\ headers[1] = headers[2]
    /\ parsed_line[1] # parsed_line[2]
    /\ data = <<<<headers[1], parsed_line[2]>>>>

\* C5: once both streams are acquired, every way convert ends, by returning
\* or by raising, leaves the source stream and the sink stream closed.
C5_StreamsClosed ==
    convert_state \in {"returned", "raised"} =>
        source_file = "closed" /\ dest_file = "closed"

\* C6: for a source of a header line and no data line, convert leaves the
\* sink holding {"data": []}.
C6_EmptyData ==
    (convert_state = "returned" /\ Len(SourceLines(fs_source)) = 1) =>
        dest = <<"{", Quote, "d", "a", "t", "a", Quote, ":", Space, "[", "]", "}">>

NoDoubledQuote(s) == \A i \in 1..(Len(s) - 1) : ~(s[i] = Quote /\ s[i + 1] = Quote)

\* C7 as stated: normalize_value returns unchanged every value that does not
\* both start and end with a quote and has no two consecutive quotes.
C7_NormalizedUnchanged ==
    (/\ pc = "normalized"
     /\ ~(StartsWithQuote(line) /\ EndsWithQuote(line))
     /\ NoDoubledQuote(line)) => value = line

\* C7, amended: normalize_value returns unchanged every value that has no
\* leading or trailing whitespace, does not both start and end with a quote
\* and has no two consecutive quotes.
C7_TrimmedUnchanged ==
    (/\ pc = "normalized"
     /\ line = Strip(line)
     /\ ~(StartsWithQuote(line) /\ EndsWithQuote(line))
     /\ NoDoubledQuote(line)) => value = line

C7_Witness ==
    /\ pc = "normalized"
    /\ Len(line) = 3
    /\ StartsWithQuote(line)
    /\ Contains(line, Space)
    /\ ~EndsWithQuote(line)
    /\ line = Strip(line)
    /\ value = line

SourceOpenFailed == source_file = "none" /\ exc # "none"

\* C8: when the source cannot be opened, the failure is raised before the
\* destination is opened: the destination is not created, truncated or
\* written, no conversion step runs, and the error is caught at the outermost
\* boundary (the __main__ block's handler reports it).
C8_SourceOpenFailure ==
    SourceOpenFailed =>
        /\ ~dest_created
        /\ dest_file = "none"
        /\ dest = <<>>
        /\ convert_state = "not_called"
        /\ nHeaders = 0 /\ nRead = 0 /\ nWritten = 0 /\ nFooter = 0
        /\ pc = "exit" => printed = "Source file not found!"

\* The number of lines of the source read so far.
LinesConsumed == Len(SourceLines(SubSeq(fs_source, 1, source_pos)))

\* C9: the opening fragment is written before anything is read from the
\* source (nothing is read before it is written, and it is in the sink at
\* every step that reads); the header line is read and parsed once, before any record is
\* built; and each data line's record is written before the next line is
\* read, so that at most one data line is read and not yet written.
C9_Ordering ==
    /\ pc \in {"main", "open_dest", "convert", "write_header"} =>
           source_pos = 0 /\ nHeaders = 0 /\ nRead = 0
    /\ pc \in {"get_csv_headers", "next_line"} =>
           /\ Len(dest) >= Len(OpeningFragment)
           /\ SubSeq(dest, 1, Len(OpeningFragment)) = OpeningFragment
    /\ nHeaders <= 1
    /\ (nRead > 0 \/ nWritten > 0 \/ pc \in {"parse_line", "write_json_data"}) =>
           nHeaders = 1
    /\ convert_state = "returned" => nHeaders = 1
    /\ nRead = (IF LinesConsumed > 0 THEN LinesConsumed - 1 ELSE 0)
    /\ nWritten <= nRead
    /\ nRead <= nWritten + 1
    /\ pc = "next_line" => nRead = nWritten

C9_Witness ==
    /\ pc = "write_json_data"
    /\ nRead = 2
    /\ nWritten = 1
    /\ nHeaders = 1

\* C10: the footer step runs once, after the source is exhausted, and changes
\* only the last two characters of the sink: it overwrites them with ]},
\* leaves the length of the sink as it was and every earlier character
\* unchanged, whatever the last two characters were.
C10_FooterStep ==
    [][/\ (pc = "footer" /\ pc' = "close_files") => nFooter' = nFooter + 1
       /\ nFooter' # nFooter =>
              /\ nFooter = 0 /\ nFooter' = 1
              /\ source_pos = Len(fs_source)
              /\ Len(dest') = Len(dest)
              /\ SubSeq(dest', 1, Len(dest) - 2) = SubSeq(dest, 1, Len(dest) - 2)
              /\ SubSeq(dest', Len(dest) - 1, Len(dest)) = ClosingFragment
       /\ convert_state' = "returned" => nFooter' = 1]_vars

C10_Witness ==
    /\ nFooter = 1
    /\ nWritten = 0
    /\ dest = <<"{", Quote, "d", "a", "t", "a", Quote, ":", "]", "}">>

====
